---------------------------- MODULE Spec2Model ----------------------------
(***************************************************************************)
(* The tool-dispatch layer of mcp-obsidian (src/mcp_obsidian/server.py):   *)
(* module start-up, the thirteen tool handlers, and the vault client they  *)
(* call.  A handler runs in two steps, split at its one blocking client    *)
(* call: the step named after the handler validates the arguments,         *)
(* constructs the client and issues the call; ClientResponds is the vault  *)
(* answering and the handler's remaining lines (formatting, return).       *)
(*                                                                         *)
(* Python values are tagged records [t |-> type name, v |-> value].  A     *)
(* Python str is a sequence of symbols; a symbol is one character that     *)
(* JSON escapes (quote, backslash, newline) or a run of characters that    *)
(* need no escape.                                                         *)
(***************************************************************************)
EXTENDS Integers, Sequences, FiniteSets, TLC

VARIABLES
    environ,          \* os.environ when the module is imported
    startup,          \* where the module's top-level code stands
    api_key,          \* module global, line 14
    obsidian_host,    \* module global, line 15
    tools,            \* the tools registered with mcp
    bound,            \* mcp.run has bound the server
    inv,              \* the tool invocations in progress
    vault,            \* the vault's files: path -> text
    lastPut,          \* history: path -> text of the last put_content, while no
                      \* other write to the path has completed since
    deleteCalls,      \* history: delete_file calls made on a client
    confirmedDeletes  \* history: obsidian_delete_file invocations with confirm = True

vars == <<environ, startup, api_key, obsidian_host, tools, bound,
          inv, vault, lastPut, deleteCalls, confirmedDeletes>>

-----------------------------------------------------------------------------
(* Python values *)

PyNone == [t |-> "NoneType", v |-> 0]

PyBool(b) == [t |-> "bool", v |-> b]

PyInt(n) == [t |-> "int", v |-> n]

PyFloat(repr) == [t |-> "float", v |-> repr]

PyStr(s) == [t |-> "str", v |-> s]

PyList(l) == [t |-> "list", v |-> l]

PyDict(items) == [t |-> "dict", v |-> items]

\* bool(x): Python truthiness, as `not x` uses it.
Truthy(x) ==
    CASE x.t = "NoneType" -> FALSE
      [] x.t = "bool"     -> x.v
      [] x.t = "int"      -> x.v # 0
      [] x.t = "float"    -> x.v # "0.0"
      [] OTHER            -> Len(x.v) > 0

\* isinstance(x, int): bool is a subclass of int.
IsInstanceInt(x) == x.t \in {"int", "bool"}

\* isinstance(x, bool)
IsInstanceBool(x) == x.t = "bool"

\* The integer an int or a bool compares as.
IntValue(x) == IF x.t = "bool" THEN (IF x.v THEN 1 ELSE 0) ELSE x.v

\* dict.get(key, default) on a dict kept as a sequence of <<key, value>>.
RECURSIVE DictGet(_, _, _)
DictGet(d, key, default) ==
    IF Len(d.v) = 0 THEN default
    ELSE IF Head(d.v)[1] = key THEN Head(d.v)[2]
    ELSE DictGet(PyDict(Tail(d.v)), key, default)

DictKeys(d) == [k \in 1..Len(d.v) |-> d.v[k][1]]

-----------------------------------------------------------------------------
(* json.dumps(value, indent=2) *)

Digit(n) == <<"0", "1", "2", "3", "4", "5", "6", "7", "8", "9">>[n + 1]

RECURSIVE Decimal(_)
Decimal(n) ==
    IF n < 0 THEN <<"-">> \o Decimal(0 - n)
    ELSE IF n < 10 THEN <<Digit(n)>>
    ELSE Decimal(n \div 10) \o <<Digit(n % 10)>>

\* str(x) inside an f-string.
Format(x) ==
    CASE x.t = "NoneType" -> <<"None">>
      [] x.t = "bool"     -> IF x.v THEN <<"True">> ELSE <<"False">>
      [] x.t = "int"      -> Decimal(x.v)
      [] x.t = "float"    -> <<x.v>>
      [] OTHER            -> x.v

EscapeSymbol(c) ==
    CASE c = "\"" -> <<"\\", "\"">>
      [] c = "\\" -> <<"\\", "\\">>
      [] c = "\n" -> <<"\\", "n">>
      [] OTHER    -> <<c>>

RECURSIVE EscapeText(_)
EscapeText(s) ==
    IF Len(s) = 0 THEN <<>> ELSE EscapeSymbol(Head(s)) \o EscapeText(Tail(s))

JsonString(s) == <<"\"">> \o EscapeText(s) \o <<"\"">>

RECURSIVE Indent(_)
Indent(level) == IF level = 0 THEN <<>> ELSE <<"  ">> \o Indent(level - 1)

RECURSIVE JsonValue(_, _), JsonItems(_, _), JsonMembers(_, _)
JsonValue(x, level) ==
    CASE x.t = "NoneType" -> <<"null">>
      [] x.t = "bool"     -> IF x.v THEN <<"true">> ELSE <<"false">>
      [] x.t = "int"      -> Decimal(x.v)
      [] x.t = "float"    -> <<x.v>>
      [] x.t = "str"      -> JsonString(x.v)
      [] x.t = "list"     ->
            IF Len(x.v) = 0 THEN <<"[", "]">>
            ELSE <<"[", "\n">> \o JsonItems(x.v, level + 1)
                 \o <<"\n">> \o Indent(level) \o <<"]">>
      [] x.t = "dict"     ->
            IF Len(x.v) = 0 THEN <<"{", "}">>
            ELSE <<"{", "\n">> \o JsonMembers(x.v, level + 1)
                 \o <<"\n">> \o Indent(level) \o <<"}">>
JsonItems(items, level) ==
    Indent(level) \o JsonValue(Head(items), level)
    \o (IF Len(items) = 1 THEN <<>>
        ELSE <<",", "\n">> \o JsonItems(Tail(items), level))
JsonMembers(items, level) ==
    Indent(level) \o JsonString(<<Head(items)[1]>>) \o <<":", " ">>
    \o JsonValue(Head(items)[2], level)
    \o (IF Len(items) = 1 THEN <<>>
        ELSE <<",", "\n">> \o JsonMembers(Tail(items), level))

json_dumps(x) == PyStr(JsonValue(x, 0))

-----------------------------------------------------------------------------
(* Bounds and input sets *)

\* Longest note, in symbols, the vault is followed to.
MaxTextLen == 2

\* Most delete invocations counted in one run.
MaxDeletes == 2

Invocations == {"i1", "i2"}

Paths == {<<"a.md">>, <<"b.md">>}

PathOrder == <<<<"a.md">>, <<"b.md">>>>

\* A parameter the caller left out; binding replaces it by the default.
Absent == [t |-> "absent", v |-> 0]

Bind(given, default) == IF given.t = "absent" THEN default ELSE given

\* Replies of the vault's search endpoint: dicts with any of their keys missing.
Match(context, start, end) ==
    PyDict(<< <<"context", PyStr(context)>>,
              <<"match", PyDict(<< <<"start", PyInt(start)>>, <<"end", PyInt(end)>> >>)>> >>)

ResultA ==
    PyDict(<< <<"filename", PyStr(<<"a.md">>)>>, <<"score", PyInt(7)>>,
              <<"matches", PyList(<<Match(<<"x ", "todo">>, 2, 6),
                                    Match(<<"todo", " y">>, 0, 4)>>)>> >>)

ResultB ==
    PyDict(<< <<"matches", PyList(<<
                  PyDict(<< <<"match", PyDict(<< <<"end", PyInt(4)>> >>)>> >>),
                  PyDict(<< <<"context", PyStr(<<"\"", "todo">>)>> >>),
                  PyDict(<< <<"context", PyStr(<<"z">>)>>,
                            <<"match", PyDict(<< <<"start", PyInt(1)>> >>)>> >>) >>)>>,
              <<"filename", PyStr(<<"b.md">>)>> >>)

ResultC == PyDict(<< <<"score", PyInt(3)>> >>)

ResultD == PyDict(<< <<"filename", PyStr(<<"d.md">>)>>, <<"matches", PyList(<<>>)>> >>)

SearchReplies ==
    { PyList(<<>>), PyList(<<ResultA>>), PyList(<<ResultB>>), PyList(<<ResultC>>),
      PyList(<<ResultA, ResultB>>), PyList(<<ResultB, ResultA>>),
      PyList(<<ResultC, ResultA, ResultD>>), PyList(<<ResultD, ResultD, ResultB>>) }

NoteA == PyDict(<< <<"path", PyStr(<<"daily/1.md">>)>> >>)

NoteB == PyDict(<< <<"path", PyStr(<<"daily/2.md">>)>>, <<"content", PyStr(<<"hi">>)>> >>)

ListReplies == { PyList(<<>>), PyList(<<NoteA>>), PyList(<<NoteB, NoteA>>) }

FullInputs ==
    [ paths           |-> Paths,
      dirs            |-> {<<"notes">>},
      queries         |-> {<<"todo">>},
      context_lengths |-> {Absent, PyInt(0), PyInt(-1), PyInt(1), PyInt(2),
                           PyFloat("1.5"), PyStr(<<"3">>)},
      days            |-> {Absent, PyInt(0), PyInt(-1), PyInt(7), PyStr(<<"3">>)},
      confirms        |-> {Absent, PyBool(FALSE), PyBool(TRUE), PyStr(<<"yes">>),
                           PyStr(<<>>), PyInt(2), PyInt(0)},
      flags           |-> {Absent, PyBool(TRUE), PyStr(<<"yes">>), PyInt(0)},
      contents        |-> {<<>>, <<"hi">>, <<"\"", "\n">>},
      appended        |-> {<<"!">>},
      periods         |-> {PyStr(<<"daily">>), PyStr(<<"yearly">>), PyStr(<<"hourly">>)},
      types           |-> {Absent, PyStr(<<"content">>), PyStr(<<"metadata">>),
                           PyStr(<<"raw">>)},
      operations      |-> {PyStr(<<"append">>), PyStr(<<"prepend">>),
                           PyStr(<<"replace">>), PyStr(<<"delete">>)},
      target_types    |-> {PyStr(<<"heading">>), PyStr(<<"block">>),
                           PyStr(<<"frontmatter">>), PyStr(<<"line">>)},
      targets         |-> {<<"Tasks">>},
      patched         |-> {<<"a.md">>},
      appendable      |-> {<<"a.md">>},
      limits          |-> {Absent, PyInt(0), PyInt(-1), PyInt(2), PyFloat("1.5")},
      batches         |-> {<<<<"a.md">>>>, <<<<"a.md">>, <<"b.md">>>>},
      jsonlogic       |-> {PyDict(<< <<"glob", PyStr(<<"*.md">>)>> >>)},
      searchReplies   |-> SearchReplies,
      listReplies     |-> ListReplies,
      notes           |-> {<<"hi">>, <<"\"", "\n">>} ]

-----------------------------------------------------------------------------
(* Module start-up *)

EnvNames == {"OBSIDIAN_API_KEY", "OBSIDIAN_HOST"}

EnvValues(name) ==
    IF name = "OBSIDIAN_API_KEY" THEN {<<>>, <<"secret">>} ELSE {<<"vault.local">>}

Environments ==
    { e \in UNION { [S -> {<<>>, <<"secret">>, <<"vault.local">>}] : S \in SUBSET EnvNames } :
        \A n \in DOMAIN e : e[n] \in EnvValues(n) }

\* os.getenv(name, default)
getenv(name, default) ==
    IF name \in DOMAIN environ THEN PyStr(environ[name]) ELSE default

ToolNames ==
    { "obsidian_list_files_in_vault", "obsidian_list_files_in_dir",
      "obsidian_get_file_contents", "obsidian_simple_search",
      "obsidian_append_content", "obsidian_patch_content", "obsidian_put_content",
      "obsidian_delete_file", "obsidian_complex_search",
      "obsidian_batch_get_file_contents", "obsidian_get_periodic_note",
      "obsidian_get_recent_periodic_notes", "obsidian_get_recent_changes" }

NoCall == [op |-> "", args |-> <<>>, client |-> [api_key |-> PyNone, host |-> PyNone]]

NoError == [type |-> "", msg |-> <<>>]

Idle ==
    [ pc |-> "idle", tool |-> "", args |-> <<>>, ncalls |-> 0, call |-> NoCall,
      reply |-> PyNone, formatted |-> PyNone, result |-> PyNone, error |-> NoError ]

NoFiles == [p \in {} |-> <<>>]

InitialVaults == { NoFiles, [p \in {<<"a.md">>} |-> <<"hi">>] }

Init ==
    /\ environ \in Environments
    /\ startup = "import"
    /\ api_key = PyNone
    /\ obsidian_host = PyNone
    /\ tools = {}
    /\ bound = FALSE
    /\ inv = [i \in Invocations |-> Idle]
    /\ vault \in InitialVaults
    /\ lastPut = NoFiles
    /\ deleteCalls = 0
    /\ confirmedDeletes = 0

ReadEnvironment ==
    /\ startup = "import"
    /\ api_key' = getenv("OBSIDIAN_API_KEY", PyNone)
    /\ obsidian_host' = getenv("OBSIDIAN_HOST", PyStr(<<"127.0.0.1">>))
    /\ startup' = "configured"
    /\ UNCHANGED <<environ, tools, bound, inv, vault, lastPut, deleteCalls, confirmedDeletes>>

\* Mutant of RequireApiKey: `if api_key is None`, which lets an empty key through.
RequireApiKeyIsNotNone ==
    /\ startup = "configured"
    /\ startup' = IF api_key.t = "NoneType" THEN "failed" ELSE "checked"
    /\ UNCHANGED <<environ, api_key, obsidian_host, tools, bound, inv, vault,
                   lastPut, deleteCalls, confirmedDeletes>>

RequireApiKey ==
    /\ startup = "configured"
    /\ startup' = IF ~Truthy(api_key) THEN "failed" ELSE "checked"
    /\ UNCHANGED <<environ, api_key, obsidian_host, tools, bound, inv, vault,
                   lastPut, deleteCalls, confirmedDeletes>>

RegisterTools ==
    /\ startup = "checked"
    /\ tools' = ToolNames
    /\ startup' = "registered"
    /\ UNCHANGED <<environ, api_key, obsidian_host, bound, inv, vault,
                   lastPut, deleteCalls, confirmedDeletes>>

Run ==
    /\ startup = "registered"
    /\ bound' = TRUE
    /\ startup' = "serving"
    /\ UNCHANGED <<environ, api_key, obsidian_host, tools, inv, vault,
                   lastPut, deleteCalls, confirmedDeletes>>

-----------------------------------------------------------------------------
(* What every handler does: raise before the call, or construct the client  *)
(* and call it                                                              *)

\* obsidian.Obsidian(api_key=api_key, host=obsidian_host)
Obsidian(key, host) == [api_key |-> key, host |-> host]

RuntimeError(msg) == [type |-> "RuntimeError", msg |-> msg]

\* The handler may run: the server is bound and the tool is registered.
Dispatchable(i, tool) ==
    /\ startup = "serving"
    /\ bound
    /\ tool \in tools
    /\ inv[i].pc = "idle"

\* raise ...: the handler ends with no client constructed.
Raised(tool, args, err) ==
    [Idle EXCEPT !.pc = "raised", !.tool = tool, !.args = args, !.error = err]

\* api = obsidian.Obsidian(...); api.<op>(*opargs): the handler waits for the vault.
Called(tool, args, op, opargs) ==
    [Idle EXCEPT !.pc = "waiting", !.tool = tool, !.args = args, !.ncalls = 1,
                 !.call = [op |-> op, args |-> opargs,
                           client |-> Obsidian(api_key, obsidian_host)]]

UnchangedByHandler ==
    UNCHANGED <<environ, startup, api_key, obsidian_host, tools, bound, vault, lastPut>>

\* x in <list>
RECURSIVE InList(_, _)
InList(x, list) ==
    IF Len(list) = 0 THEN FALSE
    ELSE IF Head(list) = x THEN TRUE ELSE InList(x, Tail(list))

\* sep.join(list)
RECURSIVE Join(_, _)
Join(sep, list) ==
    IF Len(list) = 0 THEN <<>>
    ELSE IF Len(list) = 1 THEN Head(list).v
    ELSE Head(list).v \o sep \o Join(sep, Tail(list))

valid_periods ==
    <<PyStr(<<"daily">>), PyStr(<<"weekly">>), PyStr(<<"monthly">>),
      PyStr(<<"quarterly">>), PyStr(<<"yearly">>)>>

valid_types == <<PyStr(<<"content">>), PyStr(<<"metadata">>)>>

InvalidPeriod(period) ==
    RuntimeError(<<"Invalid period: ">> \o Format(period) \o <<". Must be one of: ">>
                 \o Join(<<", ">>, valid_periods))

InvalidType(type) ==
    RuntimeError(<<"Invalid type: ">> \o Format(type) \o <<". Must be one of: ">>
                 \o Join(<<", ">>, valid_types))

InvalidLimit(limit) ==
    RuntimeError(<<"Invalid limit: ">> \o Format(limit) \o <<". Must be a positive integer">>)

InvalidDays(days) ==
    RuntimeError(<<"Invalid days: ">> \o Format(days) \o <<". Must be a positive integer">>)

InvalidIncludeContent(include_content) ==
    RuntimeError(<<"Invalid include_content: ">> \o Format(include_content)
                 \o <<". Must be a boolean">>)

\* not isinstance(x, int) or x < 1
NotPositiveInt(x) == ~IsInstanceInt(x) \/ IntValue(x) < 1

-----------------------------------------------------------------------------
(* The tool handlers, up to their client call *)

obsidian_list_files_in_vault(i) ==
    /\ Dispatchable(i, "obsidian_list_files_in_vault")
    /\ inv' = [inv EXCEPT ![i] =
                 Called("obsidian_list_files_in_vault", <<>>, "list_files_in_vault", <<>>)]
    /\ UNCHANGED <<deleteCalls, confirmedDeletes>>
    /\ UnchangedByHandler

\* Mutant of obsidian_list_files_in_dir: the handler rebinds the module global
\* obsidian_host to the host it lists from, for every later invocation.
obsidian_list_files_in_dir_rebinding_host(i, dirpath) ==
    /\ Dispatchable(i, "obsidian_list_files_in_dir")
    /\ obsidian_host' = PyStr(<<"localhost">>)
    /\ inv' = [inv EXCEPT ![i] =
                 [Called("obsidian_list_files_in_dir", <<dirpath>>,
                         "list_files_in_dir", <<dirpath>>)
                    EXCEPT !.call.client = Obsidian(api_key, obsidian_host')]]
    /\ UNCHANGED <<environ, startup, api_key, tools, bound, vault, lastPut,
                   deleteCalls, confirmedDeletes>>

obsidian_list_files_in_dir(i, dirpath) ==
    /\ Dispatchable(i, "obsidian_list_files_in_dir")
    /\ inv' = [inv EXCEPT ![i] =
                 Called("obsidian_list_files_in_dir", <<dirpath>>,
                        "list_files_in_dir", <<dirpath>>)]
    /\ UNCHANGED <<deleteCalls, confirmedDeletes>>
    /\ UnchangedByHandler

obsidian_get_file_contents(i, filepath) ==
    /\ Dispatchable(i, "obsidian_get_file_contents")
    /\ inv' = [inv EXCEPT ![i] =
                 Called("obsidian_get_file_contents", <<filepath>>,
                        "get_file_contents", <<filepath>>)]
    /\ UNCHANGED <<deleteCalls, confirmedDeletes>>
    /\ UnchangedByHandler

obsidian_simple_search(i, query, context_length) ==
    /\ Dispatchable(i, "obsidian_simple_search")
    /\ inv' = [inv EXCEPT ![i] =
                 Called("obsidian_simple_search", <<query, context_length>>,
                        "search", <<query, Bind(context_length, PyInt(100))>>)]
    /\ UNCHANGED <<deleteCalls, confirmedDeletes>>
    /\ UnchangedByHandler

obsidian_append_content(i, filepath, content) ==
    /\ Dispatchable(i, "obsidian_append_content")
    /\ inv' = [inv EXCEPT ![i] =
                 Called("obsidian_append_content", <<filepath, content>>,
                        "append_content", <<filepath, content>>)]
    /\ UNCHANGED <<deleteCalls, confirmedDeletes>>
    /\ UnchangedByHandler

obsidian_patch_content(i, filepath, operation, target_type, target, content) ==
    /\ Dispatchable(i, "obsidian_patch_content")
    /\ inv' = [inv EXCEPT ![i] =
                 Called("obsidian_patch_content",
                        <<filepath, operation, target_type, target, content>>,
                        "patch_content",
                        <<filepath, operation, target_type, target, content>>)]
    /\ UNCHANGED <<deleteCalls, confirmedDeletes>>
    /\ UnchangedByHandler

obsidian_put_content(i, filepath, content) ==
    /\ Dispatchable(i, "obsidian_put_content")
    /\ inv' = [inv EXCEPT ![i] =
                 Called("obsidian_put_content", <<filepath, content>>,
                        "put_content", <<filepath, content>>)]
    /\ UNCHANGED <<deleteCalls, confirmedDeletes>>
    /\ UnchangedByHandler

obsidian_delete_file(i, filepath, confirm) ==
    /\ Dispatchable(i, "obsidian_delete_file")
    /\ deleteCalls < MaxDeletes
    /\ confirmedDeletes < MaxDeletes
    /\ confirmedDeletes' =
         IF confirm = PyBool(TRUE) THEN confirmedDeletes + 1 ELSE confirmedDeletes
    /\ IF ~Truthy(Bind(confirm, PyBool(FALSE)))
       THEN /\ inv' = [inv EXCEPT ![i] =
                         Raised("obsidian_delete_file", <<filepath, confirm>>,
                                RuntimeError(<<"confirm must be set to true to delete a file">>))]
            /\ UNCHANGED deleteCalls
       ELSE /\ inv' = [inv EXCEPT ![i] =
                         Called("obsidian_delete_file", <<filepath, confirm>>,
                                "delete_file", <<filepath>>)]
            /\ deleteCalls' = deleteCalls + 1
    /\ UnchangedByHandler

obsidian_complex_search(i, query) ==
    /\ Dispatchable(i, "obsidian_complex_search")
    /\ inv' = [inv EXCEPT ![i] =
                 Called("obsidian_complex_search", <<query>>, "search_json", <<query>>)]
    /\ UNCHANGED <<deleteCalls, confirmedDeletes>>
    /\ UnchangedByHandler

obsidian_batch_get_file_contents(i, filepaths) ==
    /\ Dispatchable(i, "obsidian_batch_get_file_contents")
    /\ inv' = [inv EXCEPT ![i] =
                 Called("obsidian_batch_get_file_contents", <<filepaths>>,
                        "get_batch_file_contents", <<filepaths>>)]
    /\ UNCHANGED <<deleteCalls, confirmedDeletes>>
    /\ UnchangedByHandler

obsidian_get_periodic_note(i, period, type) ==
    /\ Dispatchable(i, "obsidian_get_periodic_note")
    /\ inv' = [inv EXCEPT ![i] =
                 IF ~InList(period, valid_periods)
                 THEN Raised("obsidian_get_periodic_note", <<period, type>>,
                             InvalidPeriod(period))
                 ELSE IF ~InList(Bind(type, PyStr(<<"content">>)), valid_types)
                 THEN Raised("obsidian_get_periodic_note", <<period, type>>,
                             InvalidType(Bind(type, PyStr(<<"content">>))))
                 ELSE Called("obsidian_get_periodic_note", <<period, type>>,
                             "get_periodic_note",
                             <<period, Bind(type, PyStr(<<"content">>))>>)]
    /\ UNCHANGED <<deleteCalls, confirmedDeletes>>
    /\ UnchangedByHandler

obsidian_get_recent_periodic_notes(i, period, limit, include_content) ==
    /\ Dispatchable(i, "obsidian_get_recent_periodic_notes")
    /\ inv' = [inv EXCEPT ![i] =
                 LET lim == Bind(limit, PyInt(5))
                     inc == Bind(include_content, PyBool(FALSE))
                     args == <<period, limit, include_content>>
                 IN  IF ~InList(period, valid_periods)
                     THEN Raised("obsidian_get_recent_periodic_notes", args,
                                 InvalidPeriod(period))
                     ELSE IF NotPositiveInt(lim)
                     THEN Raised("obsidian_get_recent_periodic_notes", args,
                                 InvalidLimit(lim))
                     ELSE IF ~IsInstanceBool(inc)
                     THEN Raised("obsidian_get_recent_periodic_notes", args,
                                 InvalidIncludeContent(inc))
                     ELSE Called("obsidian_get_recent_periodic_notes", args,
                                 "get_recent_periodic_notes", <<period, lim, inc>>)]
    /\ UNCHANGED <<deleteCalls, confirmedDeletes>>
    /\ UnchangedByHandler

obsidian_get_recent_changes(i, limit, days) ==
    /\ Dispatchable(i, "obsidian_get_recent_changes")
    /\ inv' = [inv EXCEPT ![i] =
                 LET lim == Bind(limit, PyInt(10))
                     d == Bind(days, PyInt(90))
                     args == <<limit, days>>
                 IN  IF NotPositiveInt(lim)
                     THEN Raised("obsidian_get_recent_changes", args, InvalidLimit(lim))
                     ELSE IF NotPositiveInt(d)
                     THEN Raised("obsidian_get_recent_changes", args, InvalidDays(d))
                     ELSE Called("obsidian_get_recent_changes", args,
                                 "get_recent_changes", <<lim, d>>)]
    /\ UNCHANGED <<deleteCalls, confirmedDeletes>>
    /\ UnchangedByHandler

-----------------------------------------------------------------------------
(* The vault client (module obsidian) and the vault behind it *)

ClientError(type) == [type |-> type, msg |-> <<type>>]

Ok(value, files) == [ok |-> TRUE, value |-> value, error |-> NoError, vault |-> files]

Failed(type) == [ok |-> FALSE, value |-> PyNone, error |-> ClientError(type), vault |-> vault]

PutFile(files, path, content) ==
    [q \in (DOMAIN files) \cup {path} |-> IF q = path THEN content ELSE files[q]]

RemoveFile(files, path) == [q \in (DOMAIN files) \ {path} |-> files[q]]

RECURSIVE Listing(_, _)
Listing(files, order) ==
    IF Len(order) = 0 THEN <<>>
    ELSE (IF Head(order) \in DOMAIN files THEN <<PyStr(Head(order))>> ELSE <<>>)
         \o Listing(files, Tail(order))

RECURSIVE Batch(_, _)
Batch(files, filepaths) ==
    IF Len(filepaths) = 0 THEN <<>>
    ELSE <<"# ">> \o Head(filepaths) \o <<"\n", "\n">>
         \o (IF Head(filepaths) \in DOMAIN files THEN files[Head(filepaths)]
             ELSE <<"Error reading file">>)
         \o <<"\n", "\n", "---", "\n", "\n">> \o Batch(files, Tail(filepaths))

Patched(old, operation, content) ==
    CASE operation = PyStr(<<"append">>)  -> old \o content
      [] operation = PyStr(<<"prepend">>) -> content \o old
      [] OTHER                            -> content

HasContent(entry) == InList("content", DictKeys(entry))

ListReplyFits(reply, limit, with_content) ==
    /\ IsInstanceInt(limit) /\ Len(reply.v) <= IntValue(limit)
    /\ with_content = PyBool(TRUE) \/ \A k \in 1..Len(reply.v) : ~HasContent(reply.v[k])

\* What the vault may answer to one client call: a value and the files it leaves.
ClientOutcomes(call, D) ==
    LET a == call.args IN
    {Failed("TransportError")} \cup
    CASE call.op = "list_files_in_vault" -> {Ok(PyList(Listing(vault, PathOrder)), vault)}
      [] call.op = "list_files_in_dir"   -> {Ok(PyList(Listing(vault, PathOrder)), vault)}
      [] call.op = "get_file_contents"   ->
            IF a[1] \in DOMAIN vault THEN {Ok(PyStr(vault[a[1]]), vault)}
            ELSE {Failed("NotFoundError")}
      [] call.op = "get_batch_file_contents" -> {Ok(PyStr(Batch(vault, a[1])), vault)}
      [] call.op = "search" ->
            IF NotPositiveInt(a[2]) THEN {Failed("RemoteError")}
            ELSE {Ok(r, vault) : r \in D.searchReplies}
      [] call.op = "search_json" -> {Ok(r, vault) : r \in D.listReplies}
      [] call.op = "append_content" ->
            LET new == (IF a[1] \in DOMAIN vault THEN vault[a[1]] ELSE <<>>) \o a[2]
            IN  IF Len(new) <= MaxTextLen THEN {Ok(PyNone, PutFile(vault, a[1], new))}
                ELSE {}
      [] call.op = "put_content" -> {Ok(PyNone, PutFile(vault, a[1], a[2]))}
      [] call.op = "patch_content" ->
            IF a[1] \notin DOMAIN vault THEN {Failed("NotFoundError")}
            ELSE IF \/ ~InList(a[2], <<PyStr(<<"append">>), PyStr(<<"prepend">>),
                                        PyStr(<<"replace">>)>>)
                    \/ ~InList(a[3], <<PyStr(<<"heading">>), PyStr(<<"block">>),
                                        PyStr(<<"frontmatter">>)>>)
            THEN {Failed("RemoteError")}
            ELSE LET new == Patched(vault[a[1]], a[2], a[5])
                 IN  IF Len(new) <= MaxTextLen THEN {Ok(PyNone, PutFile(vault, a[1], new))}
                     ELSE {}
      [] call.op = "delete_file" ->
            IF a[1] \in DOMAIN vault THEN {Ok(PyNone, RemoveFile(vault, a[1]))}
            ELSE {Failed("NotFoundError")}
      [] call.op = "get_periodic_note" ->
            IF a[2] = PyStr(<<"content">>) THEN {Ok(PyStr(n), vault) : n \in D.notes}
            ELSE {Ok(PyStr(JsonValue(PyDict(<< <<"content", PyStr(n)>> >>), 0)), vault) :
                     n \in D.notes}
      [] call.op = "get_recent_periodic_notes" ->
            {Ok(r, vault) : r \in {x \in D.listReplies : ListReplyFits(x, a[2], a[3])}}
      [] call.op = "get_recent_changes" ->
            {Ok(r, vault) : r \in {x \in D.listReplies : ListReplyFits(x, a[1], PyBool(TRUE))}}

-----------------------------------------------------------------------------
(* The handlers after their client call *)

\* formatted_matches of one result: the inner loop, one append per match.
RECURSIVE FormatMatches(_, _)
FormatMatches(matches, formatted_matches) ==
    IF Len(matches) = 0 THEN formatted_matches
    ELSE LET match == Head(matches)
             context == DictGet(match, "context", PyStr(<<>>))
             match_pos == DictGet(match, "match", PyDict(<<>>))
             start == DictGet(match_pos, "start", PyInt(0))
             end == DictGet(match_pos, "end", PyInt(0))
         IN  FormatMatches(Tail(matches),
                 Append(formatted_matches,
                        PyDict(<< <<"context", context>>,
                                  <<"match_position",
                                    PyDict(<< <<"start", start>>, <<"end", end>> >>)>> >>)))

\* formatted_results: the outer loop, one append per result.
RECURSIVE FormatResults(_, _)
FormatResults(results, formatted_results) ==
    IF Len(results) = 0 THEN formatted_results
    ELSE LET result == Head(results)
             formatted_matches ==
                 FormatMatches(DictGet(result, "matches", PyList(<<>>)).v, <<>>)
         IN  FormatResults(Tail(results),
                 Append(formatted_results,
                        PyDict(<< <<"filename", DictGet(result, "filename", PyStr(<<>>))>>,
                                  <<"score", DictGet(result, "score", PyInt(0))>>,
                                  <<"matches", PyList(formatted_matches)>> >>)))

HasMatches(result) == Len(DictGet(result, "matches", PyList(<<>>)).v) > 0

\* Mutant of FormatSearchResults: results without matches are left out.
FormatSearchResultsWithMatchesOnly(results) ==
    PyList(FormatResults(SelectSeq(results.v, HasMatches), <<>>))

FormatSearchResults(results) == PyList(FormatResults(results.v, <<>>))

\* The handler's return value, from its arguments and what the client returned.
ReturnValue(tool, args, value) ==
    CASE tool = "obsidian_list_files_in_vault" -> json_dumps(value)
      [] tool = "obsidian_list_files_in_dir" -> json_dumps(value)
      [] tool = "obsidian_get_file_contents" -> json_dumps(value)
      [] tool = "obsidian_simple_search" -> json_dumps(FormatSearchResults(value))
      [] tool = "obsidian_append_content" ->
            PyStr(<<"Successfully appended content to ">> \o args[1])
      [] tool = "obsidian_patch_content" ->
            PyStr(<<"Successfully patched content in ">> \o args[1])
      [] tool = "obsidian_put_content" ->
            PyStr(<<"Successfully uploaded content to ">> \o args[1])
      [] tool = "obsidian_delete_file" -> PyStr(<<"Successfully deleted ">> \o args[1])
      [] tool = "obsidian_complex_search" -> json_dumps(value)
      [] tool = "obsidian_batch_get_file_contents" -> value
      [] tool = "obsidian_get_periodic_note" -> value
      [] tool = "obsidian_get_recent_periodic_notes" -> json_dumps(value)
      [] tool = "obsidian_get_recent_changes" -> json_dumps(value)

\* The client call returns and the handler runs to its return statement.
Returns(slot, value) ==
    [slot EXCEPT !.pc = "returned", !.reply = value,
                 !.formatted = IF slot.tool = "obsidian_simple_search"
                               THEN FormatSearchResults(value) ELSE PyNone,
                 !.result = ReturnValue(slot.tool, slot.args, value)]

\* Mutant of Propagates: the handler catches the client's error and returns its
\* message as the result.
Suppresses(slot, err) ==
    [slot EXCEPT !.pc = "returned", !.result = PyStr(<<"Error: ">> \o err.msg)]

\* The client call raises: no handler catches, the error leaves the handler.
Propagates(slot, err) == [slot EXCEPT !.pc = "raised", !.error = err]

ClientResponds(i, D) ==
    /\ inv[i].pc = "waiting"
    /\ \E o \in ClientOutcomes(inv[i].call, D) :
          /\ vault' = o.vault
          /\ lastPut' = IF ~o.ok THEN lastPut
                        ELSE IF inv[i].call.op = "put_content"
                        THEN PutFile(lastPut, inv[i].call.args[1], inv[i].call.args[2])
                        ELSE IF inv[i].call.op \in {"append_content", "patch_content",
                                                    "delete_file"}
                        THEN RemoveFile(lastPut, inv[i].call.args[1])
                        ELSE lastPut
          /\ inv' = [inv EXCEPT ![i] =
                       IF o.ok THEN Returns(inv[i], o.value)
                       ELSE Propagates(inv[i], o.error)]
    /\ UNCHANGED <<environ, startup, api_key, obsidian_host, tools, bound,
                   deleteCalls, confirmedDeletes>>

\* The server hands the result or the error to the caller.
Deliver(i) ==
    /\ inv[i].pc \in {"returned", "raised"}
    /\ inv' = [inv EXCEPT ![i] = Idle]
    /\ UNCHANGED <<environ, startup, api_key, obsidian_host, tools, bound, vault,
                   lastPut, deleteCalls, confirmedDeletes>>

-----------------------------------------------------------------------------
(* Specifications *)

Invoke(i, D) ==
    \/ obsidian_list_files_in_vault(i)
    \/ \E dirpath \in D.dirs : obsidian_list_files_in_dir(i, dirpath)
    \/ \E filepath \in D.paths : obsidian_get_file_contents(i, filepath)
    \/ \E query \in D.queries, context_length \in D.context_lengths :
          obsidian_simple_search(i, query, context_length)
    \/ \E filepath \in D.appendable, content \in D.appended :
          obsidian_append_content(i, filepath, content)
    \/ \E filepath \in D.patched, operation \in D.operations,
          target_type \in D.target_types, target \in D.targets, content \in D.appended :
          obsidian_patch_content(i, filepath, operation, target_type, target, content)
    \/ \E filepath \in D.paths, content \in D.contents :
          obsidian_put_content(i, filepath, content)
    \/ \E filepath \in D.paths, confirm \in D.confirms :
          obsidian_delete_file(i, filepath, confirm)
    \/ \E query \in D.jsonlogic : obsidian_complex_search(i, query)
    \/ \E filepaths \in D.batches : obsidian_batch_get_file_contents(i, filepaths)
    \/ \E period \in D.periods, type \in D.types :
          obsidian_get_periodic_note(i, period, type)
    \/ \E period \in D.periods, limit \in D.limits, include_content \in D.flags :
          obsidian_get_recent_periodic_notes(i, period, limit, include_content)
    \/ \E limit \in D.limits, days \in D.days :
          obsidian_get_recent_changes(i, limit, days)

Startup == ReadEnvironment \/ RequireApiKey \/ RegisterTools \/ Run

\* The inputs of the concurrent specification: one or two per parameter.
SmallInputs ==
    [ paths           |-> {<<"a.md">>},
      dirs            |-> {<<"notes">>},
      queries         |-> {<<"todo">>},
      context_lengths |-> {PyInt(0)},
      days            |-> {Absent},
      confirms        |-> {PyBool(FALSE), PyBool(TRUE)},
      flags           |-> {Absent},
      contents        |-> {<<"hi">>},
      appended        |-> {<<"!">>},
      periods         |-> {PyStr(<<"daily">>), PyStr(<<"hourly">>)},
      types           |-> {Absent},
      operations      |-> {PyStr(<<"append">>)},
      target_types    |-> {PyStr(<<"heading">>)},
      targets         |-> {<<"Tasks">>},
      patched         |-> {<<"a.md">>},
      appendable      |-> {<<"a.md">>},
      limits          |-> {Absent, PyInt(0)},
      batches         |-> {<<<<"a.md">>>>},
      jsonlogic       |-> {PyDict(<< <<"glob", PyStr(<<"*.md">>)>> >>)},
      searchReplies   |-> {PyList(<<ResultC>>)},
      listReplies     |-> {PyList(<<>>)},
      notes           |-> {<<"hi">>} ]

\* One invocation at a time, over the full input sets.
Next ==
    \/ Startup
    \/ \E i \in {"i1"} : Invoke(i, FullInputs) \/ ClientResponds(i, FullInputs) \/ Deliver(i)

Spec == Init /\ [][Next]_vars

\* The server dispatches invocations concurrently: any number of them, here two,
\* stand between their steps at once.
InitConc ==
    /\ Init
    /\ "OBSIDIAN_API_KEY" \in DOMAIN environ
    /\ environ["OBSIDIAN_API_KEY"] = <<"secret">>
    /\ vault = NoFiles

NextConc ==
    \/ Startup
    \/ \E i \in Invocations :
          Invoke(i, SmallInputs) \/ ClientResponds(i, SmallInputs) \/ Deliver(i)

SpecConc == InitConc /\ [][NextConc]_vars

-----------------------------------------------------------------------------
(* The claims *)

Active(i) == inv[i].pc # "idle"

NoClientCall(i) == inv[i].pc = "raised" /\ inv[i].ncalls = 0

\* C1: obsidian_delete_file with confirm absent or false raises and calls the
\* client's delete_file zero times; with confirm = true it calls delete_file
\* exactly once, with the given filepath; so over any sequence of invocations
\* the delete_file calls made number the invocations made with confirm = true.
C1_DeleteOnlyOnConfirmTrue ==
    /\ \A i \in Invocations :
          inv[i].tool = "obsidian_delete_file" =>
             LET filepath == inv[i].args[1]
                 confirm == inv[i].args[2]
             IN  /\ confirm \in {Absent, PyBool(FALSE)} => NoClientCall(i)
                 /\ confirm = PyBool(TRUE) =>
                       /\ inv[i].ncalls = 1
                       /\ inv[i].call.op = "delete_file"
                       /\ inv[i].call.args = <<filepath>>
    /\ deleteCalls = confirmedDeletes

PeriodSet ==
    {PyStr(<<"daily">>), PyStr(<<"weekly">>), PyStr(<<"monthly">>),
     PyStr(<<"quarterly">>), PyStr(<<"yearly">>)}

TypeSet == {PyStr(<<"content">>), PyStr(<<"metadata">>)}

OperationSet == {PyStr(<<"append">>), PyStr(<<"prepend">>), PyStr(<<"replace">>)}

TargetTypeSet == {PyStr(<<"heading">>), PyStr(<<"block">>), PyStr(<<"frontmatter">>)}

\* The invocation gives an enum-typed parameter a value outside its valid set.
EnumOutsideSet(i) ==
    LET a == inv[i].args IN
    CASE inv[i].tool = "obsidian_get_periodic_note" ->
            a[1] \notin PeriodSet \/ (a[2] # Absent /\ a[2] \notin TypeSet)
      [] inv[i].tool = "obsidian_get_recent_periodic_notes" -> a[1] \notin PeriodSet
      [] inv[i].tool = "obsidian_patch_content" ->
            a[2] \notin OperationSet \/ a[3] \notin TargetTypeSet
      [] OTHER -> FALSE

\* C2: a period, type, operation or target_type outside its valid set makes the
\* tool raise, and the invocation issues no vault client call.
C2_EnumsValidatedBeforeCall ==
    \A i \in Invocations : Active(i) /\ EnumOutsideSet(i) => NoClientCall(i)

PositiveInteger(x) == x.t = "int" /\ x.v >= 1

\* The positive-integer parameters of an invocation: <<given, default, position
\* of the value among the client call's arguments>>.
NumericParams(i) ==
    LET a == inv[i].args IN
    CASE inv[i].tool = "obsidian_simple_search" -> {<<a[2], PyInt(100), 2>>}
      [] inv[i].tool = "obsidian_get_recent_periodic_notes" -> {<<a[2], PyInt(5), 2>>}
      [] inv[i].tool = "obsidian_get_recent_changes" ->
            {<<a[1], PyInt(10), 1>>, <<a[2], PyInt(90), 2>>}
      [] OTHER -> {}

\* C3: a zero, negative or non-integer limit, days or context_length makes the
\* tool raise with no client call; a positive integer is passed unchanged as
\* the matching argument of the one client call.
C3_PositiveIntegersValidated ==
    \A i \in Invocations : Active(i) =>
       \A n \in NumericParams(i) :
          LET value == Bind(n[1], n[2]) IN
          /\ ~PositiveInteger(value) => NoClientCall(i)
          /\ PositiveInteger(value) /\ inv[i].ncalls > 0 =>
                inv[i].ncalls = 1 /\ inv[i].call.args[n[3]] = value

\* The boolean parameters an invocation was given.
BooleanParams(i) ==
    LET a == inv[i].args IN
    CASE inv[i].tool = "obsidian_get_recent_periodic_notes" -> {a[3]} \ {Absent}
      [] inv[i].tool = "obsidian_delete_file" -> {a[2]} \ {Absent}
      [] OTHER -> {}

\* C4: a non-boolean include_content or confirm, truthy ones included, makes the
\* tool raise and issue no client call: no deletion on a non-boolean confirm.
C4_BooleansMustBeBooleans ==
    \A i \in Invocations : Active(i) =>
       \A b \in BooleanParams(i) : b.t # "bool" => NoClientCall(i)

SideEffecting ==
    {"obsidian_append_content", "obsidian_patch_content", "obsidian_put_content",
     "obsidian_delete_file"}

ClientErrorTypes == {"TransportError", "NotFoundError", "RemoteError"}

ConfirmationOf(tool, filepath) ==
    PyStr((CASE tool = "obsidian_append_content" -> <<"Successfully appended content to ">>
             [] tool = "obsidian_patch_content" -> <<"Successfully patched content in ">>
             [] tool = "obsidian_put_content" -> <<"Successfully uploaded content to ">>
             [] tool = "obsidian_delete_file" -> <<"Successfully deleted ">>) \o filepath)

\* C5: an invocation makes at most one client call; when the call fails the
\* invocation fails with the client's error and returns nothing; a side-effecting
\* tool returns its confirmation, naming the given filepath, only once its one
\* call has completed without error (the write is then in the vault).
C5_OneCallNoRetry ==
    \A i \in Invocations :
       /\ inv[i].ncalls <= 1
       /\ inv[i].pc = "waiting" => inv[i].ncalls = 1 /\ inv[i].result = PyNone
       /\ inv[i].pc = "raised" =>
             /\ inv[i].result = PyNone
             /\ inv[i].error # NoError
             /\ inv[i].ncalls = 1 => inv[i].error.type \in ClientErrorTypes
       /\ inv[i].pc = "returned" => inv[i].ncalls = 1 /\ inv[i].error = NoError
       /\ inv[i].tool \in SideEffecting =>
             /\ inv[i].result # PyNone => inv[i].pc = "returned"
             /\ inv[i].pc = "returned" =>
                   /\ inv[i].result = ConfirmationOf(inv[i].tool, inv[i].args[1])
                   /\ inv[i].tool = "obsidian_put_content" =>
                         /\ inv[i].args[1] \in DOMAIN vault
                         /\ vault[inv[i].args[1]] = inv[i].args[2]
                   /\ inv[i].tool = "obsidian_delete_file" =>
                         inv[i].args[1] \notin DOMAIN vault

\* A side-effecting invocation whose client call failed.
C5_Witness ==
    /\ inv["i1"].pc = "raised"
    /\ inv["i1"].ncalls = 1
    /\ inv["i1"].tool = "obsidian_put_content"
    /\ inv["i1"].error.type = "TransportError"

StructuredTools ==
    {"obsidian_list_files_in_vault", "obsidian_list_files_in_dir",
     "obsidian_complex_search", "obsidian_get_recent_periodic_notes",
     "obsidian_get_recent_changes"}

\* C6: list and structured results are the client's result as indented JSON
\* text; obsidian_get_file_contents, and obsidian_get_periodic_note with type
\* content, return the client's text unchanged, not JSON-encoded or quoted.
C6_RawTextForContent ==
    \A i \in Invocations : inv[i].pc = "returned" =>
       /\ inv[i].tool \in StructuredTools => inv[i].result = json_dumps(inv[i].reply)
       /\ inv[i].tool = "obsidian_simple_search" =>
             inv[i].result = json_dumps(inv[i].formatted)
       /\ inv[i].tool = "obsidian_get_file_contents" => inv[i].result = inv[i].reply
       /\ /\ inv[i].tool = "obsidian_get_periodic_note"
          /\ Bind(inv[i].args[2], PyStr(<<"content">>)) = PyStr(<<"content">>)
          => inv[i].result = inv[i].reply

\* C7: obsidian_put_content(path, X), then obsidian_get_file_contents(path) with
\* no write to the path in between, returns X (the vault keeps X as it is).
C7_PutGetRoundTrip ==
    \A i \in Invocations :
       /\ inv[i].pc = "returned"
       /\ inv[i].tool = "obsidian_get_file_contents"
       /\ inv[i].args[1] \in DOMAIN lastPut
       => inv[i].result = PyStr(lastPut[inv[i].args[1]])

KeyMissingOrEmpty ==
    \/ "OBSIDIAN_API_KEY" \notin DOMAIN environ
    \/ environ["OBSIDIAN_API_KEY"] = <<>>

\* C8: with the API key absent or empty start-up fails before any tool is
\* registered or the server bound, so no invocation is served and no client
\* call made without a non-empty key; an absent host defaults to 127.0.0.1.
C8_NoStartWithoutApiKey ==
    /\ KeyMissingOrEmpty /\ startup # "import" =>
          /\ startup \in {"configured", "failed"}
          /\ tools = {}
          /\ ~bound
          /\ \A i \in Invocations : inv[i] = Idle
    /\ (tools # {} \/ bound \/ \E i \in Invocations : Active(i)) =>
          api_key.t = "str" /\ Len(api_key.v) > 0
    /\ \A i \in Invocations :
          inv[i].ncalls > 0 =>
             inv[i].call.client.api_key.t = "str" /\ Len(inv[i].call.client.api_key.v) > 0
    /\ "OBSIDIAN_HOST" \notin DOMAIN environ /\ startup # "import" =>
          obsidian_host = PyStr(<<"127.0.0.1">>)

\* Start-up has failed on an empty key, the host left to its default.
C8_Witness ==
    /\ startup = "failed"
    /\ "OBSIDIAN_API_KEY" \in DOMAIN environ
    /\ "OBSIDIAN_HOST" \notin DOMAIN environ
    /\ obsidian_host = PyStr(<<"127.0.0.1">>)

\* C9: under any interleaving every invocation calls a client of its own built
\* from the process configuration, which no invocation changes; whether it
\* raises, and the client operation and arguments it issues, are fixed by its
\* own arguments: two invocations with equal arguments agree on them whatever
\* ran in between.
C9_InvocationsIndependent ==
    /\ startup # "import" =>
          /\ api_key = getenv("OBSIDIAN_API_KEY", PyNone)
          /\ obsidian_host = getenv("OBSIDIAN_HOST", PyStr(<<"127.0.0.1">>))
    /\ \A i \in Invocations :
          inv[i].ncalls > 0 =>
             inv[i].call.client = Obsidian(getenv("OBSIDIAN_API_KEY", PyNone),
                                           getenv("OBSIDIAN_HOST", PyStr(<<"127.0.0.1">>)))
    /\ \A i, j \in Invocations :
          /\ Active(i) /\ Active(j)
          /\ inv[i].tool = inv[j].tool
          /\ inv[i].args = inv[j].args
          => /\ inv[i].ncalls = inv[j].ncalls
             /\ inv[i].call = inv[j].call
             /\ inv[i].ncalls = 0 => inv[i].error = inv[j].error

\* Two invocations of one tool with equal arguments in flight at once, one
\* still waiting for the vault, the other already answered.
C9_Witness ==
    /\ inv["i1"].pc = "waiting"
    /\ inv["i2"].pc = "returned"
    /\ inv["i1"].tool = "obsidian_delete_file"
    /\ inv["i2"].tool = "obsidian_delete_file"
    /\ inv["i1"].args = inv["i2"].args

HasKey(d, key) == \E k \in 1..Len(d.v) : d.v[k][1] = key

ValueOf(d, key) == d.v[CHOOSE k \in 1..Len(d.v) : d.v[k][1] = key][2]

OrDefault(d, key, default) == IF HasKey(d, key) THEN ValueOf(d, key) ELSE default

Fields(d) == {d.v[k][1] : k \in 1..Len(d.v)}

\* C10: obsidian_simple_search's output has one entry per result, in the same
\* order, each with exactly filename, score and matches; matches has one entry
\* per match, in the same order, each {context, match_position {start, end}};
\* a missing filename is "", score 0, matches empty, context "", start or end 0.
C10_SearchNormalizedOneToOne ==
    \A i \in Invocations :
       inv[i].pc = "returned" /\ inv[i].tool = "obsidian_simple_search" =>
          LET results == inv[i].reply.v
              out == inv[i].formatted.v
          IN  /\ Len(out) = Len(results)
              /\ inv[i].result = json_dumps(inv[i].formatted)
              /\ \A k \in 1..Len(results) :
                    LET matches == OrDefault(results[k], "matches", PyList(<<>>)).v
                        outm == ValueOf(out[k], "matches").v
                    IN  /\ Len(out[k].v) = 3
                        /\ Fields(out[k]) = {"filename", "score", "matches"}
                        /\ ValueOf(out[k], "filename")
                              = OrDefault(results[k], "filename", PyStr(<<>>))
                        /\ ValueOf(out[k], "score")
                              = OrDefault(results[k], "score", PyInt(0))
                        /\ Len(outm) = Len(matches)
                        /\ \A m \in 1..Len(matches) :
                              LET pos == OrDefault(matches[m], "match", PyDict(<<>>))
                              IN  outm[m] =
                                    PyDict(<< <<"context",
                                                OrDefault(matches[m], "context", PyStr(<<>>))>>,
                                              <<"match_position",
                                                PyDict(<< <<"start",
                                                            OrDefault(pos, "start", PyInt(0))>>,
                                                          <<"end",
                                                            OrDefault(pos, "end", PyInt(0))>> >>)>> >>)

\* A search answered with three results, fields missing in each.
C10_Witness ==
    /\ inv["i1"].pc = "returned"
    /\ inv["i1"].tool = "obsidian_simple_search"
    /\ inv["i1"].reply = PyList(<<ResultD, ResultD, ResultB>>)

=============================================================================
